---- MODULE Spec2Model ----
(***************************************************************************)
(* A state-machine model of scripts/python_learning_editor.py: the         *)
(* PythonLearningEditor session (text buffer, gutter, highlight timer,     *)
(* autocomplete popup, quiz, console runner, file operations).             *)
(*                                                                         *)
(* Text is a sequence of one-character strings.  Python's None is the      *)
(* string "None" where a handle or a path is optional.                     *)
(***************************************************************************)
EXTENDS Integers, Sequences, FiniteSets, TLC

None == "None"

\* ------------------------------------------------------------------ bounds
\* longest buffer the user types into (characters)
MaxLen == 2
\* highlight timers that may be pending in the event loop at once
MaxTimers == 2
\* quiz auto-advance timers that may be pending at once
MaxQuizTimers == 2
\* chunks of text the console may hold before it has to be cleared
MaxConsole == 3
\* how far down the popup's list the user picks a suggestion
MaxPick == 2

\* ------------------------------------------------------------ text helpers
Min(a, b) == IF a < b THEN a ELSE b

\* str.lower on the characters the model uses
LowerChar(c) ==
    CASE c = "D" -> "d" [] c = "E" -> "e" [] c = "F" -> "f"
      [] c = "I" -> "i" [] c = "N" -> "n" [] c = "T" -> "t"
      [] c = "W" -> "w" [] c = "H" -> "h" [] c = "L" -> "l"
      [] OTHER -> c
Lower(s) == [i \in 1..Len(s) |-> LowerChar(s[i])]

IsSpace(c) == c \in {" ", "\t", "\n", "\r"}

\* str.strip: drop leading and trailing whitespace
Strip(s) ==
    IF \A i \in 1..Len(s) : IsSpace(s[i]) THEN <<>>
    ELSE SubSeq(s,
                CHOOSE i \in 1..Len(s) :
                    ~IsSpace(s[i]) /\ \A j \in 1..(i - 1) : IsSpace(s[j]),
                CHOOSE i \in 1..Len(s) :
                    ~IsSpace(s[i]) /\ \A j \in (i + 1)..Len(s) : IsSpace(s[j]))

\* str.startswith
StartsWith(s, prefix) ==
    Len(prefix) <= Len(s) /\ SubSeq(s, 1, Len(prefix)) = prefix

\* Tcl_UniCharIsWordChar on the characters the model uses: letters, digits, "_"
IsWordChar(c) ==
    c \notin {" ", "\t", "\n", "\r", "(", ")", "'", ",", "!", ":", "%", "=", "\""}

\* ------------------------------------------------------------ static tables
AUTOCOMPLETE_SUGGESTIONS ==
    << 
       <<"F","a","l","s","e">>,
       <<"N","o","n","e">>,
       <<"T","r","u","e">>,
       <<"a","n","d">>,
       <<"a","s">>,
       <<"a","s","s","e","r","t">>,
       <<"a","s","y","n","c">>,
       <<"a","w","a","i","t">>,
       <<"b","r","e","a","k">>,
       <<"c","l","a","s","s">>,
       <<"c","o","n","t","i","n","u","e">>,
       <<"d","e","f">>,
       <<"d","e","l">>,
       <<"d","i","c","t">>,
       <<"e","l","i","f">>,
       <<"e","l","s","e">>,
       <<"e","n","u","m","e","r","a","t","e">>,
       <<"e","x","c","e","p","t">>,
       <<"f","i","n","a","l","l","y">>,
       <<"f","l","o","a","t">>,
       <<"f","o","r">>,
       <<"f","r","o","m">>,
       <<"g","l","o","b","a","l">>,
       <<"i","f">>,
       <<"i","m","p","o","r","t">>,
       <<"i","n">>,
       <<"i","n","p","u","t">>,
       <<"i","n","t">>,
       <<"i","s">>,
       <<"l","a","m","b","d","a">>,
       <<"l","e","n">>,
       <<"l","i","s","t">>,
       <<"n","o","n","l","o","c","a","l">>,
       <<"n","o","t">>,
       <<"o","p","e","n">>,
       <<"o","r">>,
       <<"p","a","s","s">>,
       <<"p","r","i","n","t">>,
       <<"r","a","i","s","e">>,
       <<"r","a","n","g","e">>,
       <<"r","e","t","u","r","n">>,
       <<"s","e","t">>,
       <<"s","t","r">>,
       <<"t","r","y">>,
       <<"t","u","p","l","e">>,
       <<"w","h","i","l","e">>,
       <<"w","i","t","h">>,
       <<"y","i","e","l","d">> >>

HelloCode ==
    <<"p","r","i","n","t","(","'","H","e","l","l","o",","," ","P","y","t","h","o","n",
      " ","a","d","v","e","n","t","u","r","e","r","!","'",")">>

FizzBuzzCode ==
    <<"f","o","r"," ","n","u","m","b","e","r"," ","i","n"," ","r","a","n","g","e","(",
      "1",","," ","2","1",")",":","\n"," "," "," "," ","i","f"," ","n","u","m","b","e",
      "r"," ","%"," ","1","5"," ","=","="," ","0",":","\n"," "," "," "," "," "," "," ",
      " ","p","r","i","n","t","(","'","F","i","z","z","B","u","z","z","'",")","\n"," ",
      " "," "," ","e","l","i","f"," ","n","u","m","b","e","r"," ","%"," ","3"," ","=",
      "="," ","0",":","\n"," "," "," "," "," "," "," "," ","p","r","i","n","t","(","'",
      "F","i","z","z","'",")","\n"," "," "," "," ","e","l","i","f"," ","n","u","m","b",
      "e","r"," ","%"," ","5"," ","=","="," ","0",":","\n"," "," "," "," "," "," "," ",
      " ","p","r","i","n","t","(","'","B","u","z","z","'",")","\n"," "," "," "," ","e",
      "l","s","e",":","\n"," "," "," "," "," "," "," "," ","p","r","i","n","t","(","n",
      "u","m","b","e","r",")">>

\* CODE_EXAMPLES.get(label); for a label that is no key it is None, which the
\* caller's "not code" takes like the empty text, <<>> here
CODE_EXAMPLES(label) ==
    CASE label = "Hello" -> HelloCode
      [] label = "FizzBuzz" -> FizzBuzzCode
      [] OTHER -> <<>>

\* QUIZ_QUESTIONS (the backquotes of the explanations are left out)
QUIZ_QUESTIONS ==
    << [prompt |-> "What keyword starts a function definition?",
        answer |-> <<"d","e","f">>,
        explanation |-> "Functions begin with the def keyword followed by the name."],
       [prompt |-> "Which built-in converts text to an integer?",
        answer |-> <<"i","n","t">>,
        explanation |-> "int(value) parses a string or number into an integer."],
       [prompt |-> "What statement lets you loop while a condition is true?",
        answer |-> <<"w","h","i","l","e">>,
        explanation |-> "Use while condition: to run a block until the condition fails."] >>

\* --------------------------------------------------------------- the state
VARIABLES
    phase,          \* "constructed" (after __init__), "mainloop", "quit"
    text,           \* self.text: the buffer, without the widget's final newline
    insert,         \* self.text's insert mark: an offset 0..Len(text)
    sel,            \* self.text's "sel" tag: <<first, last>> offsets, or <<>>
    modified,       \* self.text.edit_modified()
    file_path,      \* self.file_path
    files,          \* the disk: path -> the file's bytes
    linesep,        \* os.linesep of the host, as characters
    line_numbers,   \* self.line_numbers: the numbers the gutter shows
    helper_text,    \* self.helper_text: the tip shown
    status,         \* self.status: the pieces of the status line
    after_id,       \* self._after_id
    timers,         \* ids of the _highlight_syntax callbacks pending in the event loop
    ac_window,      \* self._autocomplete_window
    ac_list,        \* self._autocomplete_list: the items of its tree, <<>> for None
    windows,        \* the popup windows that exist (not destroyed)
    focus,          \* where the keyboard focus is: "editor", "popup", "elsewhere"
    console,        \* self.console: the chunks appended so far
    quiz_index,     \* self._quiz_index
    quiz_prompt,    \* self.quiz_prompt: the prompt shown
    quiz_entry,     \* self.quiz_entry: the answer typed
    quiz_feedback,  \* self.quiz_feedback: the pieces of the feedback shown
    quiz_timers,    \* _show_quiz_question callbacks pending in the event loop
    lastOp,         \* the handler that ran last, with its outcome
    prompted,       \* the last handler showed the unsaved-changes dialog
    raised          \* the exception that left the last handler, or None

editorVars == <<text, insert, sel, modified, file_path, files, line_numbers,
                helper_text, status, after_id, timers, prompted, raised>>
popupVars == <<ac_window, ac_list, windows, focus>>
quizVars == <<quiz_index, quiz_prompt, quiz_entry, quiz_feedback, quiz_timers>>
vars == <<phase, editorVars, popupVars, quizVars, linesep, console, lastOp>>

\* ------------------------------------------------- the Text widget (tkinter)
\* the widget's characters: the buffer and the final newline it always keeps
Chars(t) == t \o <<"\n">>
\* the character at offset p, 0 <= p <= Len(t)
CharAt(t, p) == IF p < Len(t) THEN t[p + 1] ELSE "\n"
\* text.get(a, b) for offsets a <= b; "end" is Len(t) + 1
TextGet(t, a, b) == SubSeq(Chars(t), a + 1, Min(b, Len(t) + 1))
\* the greatest and the least of a set of numbers
SetMax(S) == CHOOSE x \in S : \A y \in S : y <= x
SetMin(S) == CHOOSE x \in S : \A y \in S : x <= y
\* the offsets at which the lines up to offset p start
LineStarts(t, p) == {q \in 0..Min(p, Len(t)) : q = 0 \/ t[q] = "\n"}
\* the line number (from 1) of offset p
LineOf(t, p) == Cardinality(LineStarts(t, p))
\* int(text.index("end-1c").split(".")[0]): the line of the last character
NumLines(t) == LineOf(t, Len(t))
\* the offset at which the line of offset p starts
LineStartOf(t, p) == SetMax(LineStarts(t, p))
ColOf(t, p) == p - LineStartOf(t, p)
\* the offset of index "line.col": past the text it is the end of the text,
\* past the line it is the end of the line
IndexAt(t, line, col) ==
    LET starts == LineStarts(t, Len(t))
    IN  IF line > Cardinality(starts) THEN Len(t)
        ELSE LET ls == CHOOSE q \in starts : Cardinality({r \in starts : r < q}) = line - 1
                 later == {r \in starts : r > ls}
                 le == IF later = {} THEN Len(t) ELSE SetMin(later) - 1
             IN  Min(ls + col, le)
\* the index modifiers "wordstart" and "wordend": a word is a run of word
\* characters, or one character that is none
WordStart(t, p) ==
    IF ~IsWordChar(CharAt(t, p)) THEN p
    ELSE LET before == {r \in 0..p : ~IsWordChar(CharAt(t, r))}
         IN  IF before = {} THEN 0 ELSE SetMax(before) + 1
WordEnd(t, p) ==
    IF ~IsWordChar(CharAt(t, p)) THEN p + 1
    ELSE SetMin({r \in p..Len(t) : ~IsWordChar(CharAt(t, r))})

\* text.delete(a, b) on the editor record s.  A range that reaches "end" stops
\* before the final newline and, when it starts at the start of a line other
\* than the first, takes the newline before it instead.  Deleting characters
\* sets the modified flag; the marks and the selection move with the text.
TextDelete(s, a0, b0) ==
    LET t == s.text
        atEnd == b0 > Len(t)
        b == Min(b0, Len(t))
        a == IF atEnd /\ a0 > 0 /\ a0 <= Len(t) /\ t[a0] = "\n" THEN a0 - 1
             ELSE Min(a0, Len(t))
        n == b - a
        Move(p) == IF p >= b THEN p - n ELSE IF p > a THEN a ELSE p
    IN  IF n <= 0 THEN s
        ELSE [s EXCEPT
                !.text = SubSeq(t, 1, a) \o SubSeq(t, b + 1, Len(t)),
                !.insert = Move(s.insert),
                !.sel = IF s.sel = <<>> \/ Move(s.sel[1]) = Move(s.sel[2]) THEN <<>>
                        ELSE <<Move(s.sel[1]), Move(s.sel[2])>>,
                !.modified = TRUE]

\* text.insert(at, chars): the insert mark has right gravity, and the selection
\* grows only round characters put strictly inside it
TextInsert(s, at0, chars) ==
    LET t == s.text
        at == Min(at0, Len(t))
        n == Len(chars)
    IN  IF n = 0 THEN s
        ELSE [s EXCEPT
                !.text = SubSeq(t, 1, at) \o chars \o SubSeq(t, at + 1, Len(t)),
                !.insert = IF s.insert >= at THEN s.insert + n ELSE s.insert,
                !.sel = IF s.sel = <<>> THEN <<>>
                        ELSE <<IF s.sel[1] >= at THEN s.sel[1] + n ELSE s.sel[1],
                               IF s.sel[2] > at THEN s.sel[2] + n ELSE s.sel[2]>>,
                !.modified = TRUE]

\* the editor's fields as one record, so that a handler is a function of it
Cur ==
    [text |-> text, insert |-> insert, sel |-> sel, modified |-> modified,
     file_path |-> file_path, files |-> files, line_numbers |-> line_numbers,
     helper_text |-> helper_text, status |-> status, after_id |-> after_id,
     timers |-> timers, prompted |-> FALSE, raised |-> None]
Store(s) ==
    /\ text' = s.text
    /\ insert' = s.insert
    /\ sel' = s.sel
    /\ modified' = s.modified
    /\ file_path' = s.file_path
    /\ files' = s.files
    /\ line_numbers' = s.line_numbers
    /\ status' = s.status
    /\ after_id' = s.after_id
    /\ timers' = s.timers
    /\ helper_text' = s.helper_text
    /\ prompted' = s.prompted
    /\ raised' = s.raised

\* ------------------------------------------------------- the editor's panes
\* _update_line_numbers: the gutter shows 1..lines, lines being the line of
\* the buffer's last character
update_line_numbers(s) ==
    [s EXCEPT !.line_numbers = [n \in 1..NumLines(s.text) |-> n]]

\* _highlight_syntax: forgets the timer handle, then retags the buffer (the
\* tags are colours only and are not part of the state)
highlight_syntax(s) == [s EXCEPT !.after_id = None]

\* Path.name of the paths the model uses
PathName(path) == path

\* _cursor_position and _update_status_bar
update_status_bar(s) ==
    LET filename == IF s.file_path # None THEN PathName(s.file_path) ELSE "Untitled"
    IN  [s EXCEPT !.status = <<filename, LineOf(s.text, s.insert),
                               ColOf(s.text, s.insert) + 1>>]

\* _current_word: the selection if there is one, else the word at the insert
\* mark; stripped
current_word(s) ==
    IF s.sel # <<>> /\ s.sel[1] < s.sel[2]
    THEN Strip(TextGet(s.text, s.sel[1], s.sel[2]))
    ELSE Strip(TextGet(s.text, WordStart(s.text, s.insert), WordEnd(s.text, s.insert)))

HelpFallback == "Select a keyword to see a tip."
\* KEYWORD_HELP.get(word, fallback)
KEYWORD_HELP(word) ==
    CASE word = <<"f","o","r">> ->
             "Iterate over items in a sequence. Syntax: for item in sequence:"
      [] word = <<"w","h","i","l","e">> ->
             "Repeat a block while a condition remains True."
      [] word = <<"d","e","f">> ->
             "Define a function. Use parentheses for parameters."
      [] word = <<"c","l","a","s","s">> ->
             "Define a class that bundles data and behaviour."
      [] word = <<"w","i","t","h">> ->
             "Context manager for managing resources, e.g. files."
      [] word = <<"p","r","i","n","t">> ->
             "Display text or variables. Useful for debugging."
      [] word = <<"i","m","p","o","r","t">> ->
             "Bring modules or objects into the current namespace."
      [] word = <<"l","i","s","t">> ->
             "Mutable ordered collection. Use [] to define literals."
      [] word = <<"d","i","c","t">> ->
             "Mapping of keys to values. Literal syntax uses {key: value}."
      [] OTHER -> HelpFallback

\* _update_helper_panel
update_helper_panel(s) == [s EXCEPT !.helper_text = KEYWORD_HELP(current_word(s))]

\* ------------------------------------------------------------ the file system
\* a byte that is no UTF-8: a file that holds one cannot be read as text
BadByte == "\\xff"

\* the pieces lo..hi of a sequence of texts, joined
RECURSIVE Join(_, _, _)
Join(pieces, lo, hi) ==
    IF lo > hi THEN <<>>
    ELSE IF lo = hi THEN pieces[lo]
    ELSE Join(pieces, lo, (lo + hi) \div 2) \o Join(pieces, (lo + hi) \div 2 + 1, hi)

\* Path.write_text(data, encoding="utf8"): text mode writes each "\n" as os.linesep
Encode(data, sep) ==
    Join([i \in 1..Len(data) |-> IF data[i] = "\n" THEN sep ELSE <<data[i]>>],
         1, Len(data))

\* Path.read_text(encoding="utf8"): universal newlines read "\r\n" and "\r" as
\* "\n": a "\r" yields "\n", and the "\n" right after a "\r" yields nothing
Decode(bytes) ==
    Join([j \in 1..Len(bytes) |->
             IF bytes[j] = "\r" THEN <<"\n">>
             ELSE IF bytes[j] = "\n" /\ j > 1 /\ bytes[j - 1] = "\r" THEN <<>>
             ELSE <<bytes[j]>>],
         1, Len(bytes))

\* read_text succeeds: the file is UTF-8
Readable(bytes) == \A i \in 1..Len(bytes) : bytes[i] # BadByte

\* ------------------------------------------------------------- file handlers
Paths == {"a.py", "b.py"}
\* the names the user gives in the save dialog
SaveNames == {"a.py"}
\* messagebox.askyesnocancel: True, False, None
Answers == {"yes", "no", "cancel"}

\* (a slip: get("1.0", END), which takes the final newline too)
BufferTextToEnd(s) == TextGet(s.text, 0, Len(s.text) + 1)

\* self.text.get("1.0", "end-1c"): the buffer without the final newline
BufferText(s) == TextGet(s.text, 0, Len(s.text))

\* self.file_path.write_text(...); the "Saved" box; edit_modified(False)
WriteBuffer(s) ==
    [s EXCEPT !.files = [s.files EXCEPT ![s.file_path] = Encode(BufferText(s), linesep)],
              !.modified = FALSE]

\* save_file and save_file_as; saveName is what asksaveasfilename returns
\* (None when the dialog is dismissed)
RECURSIVE save_file(_, _), save_file_as(_, _)
save_file(s, saveName) ==
    IF s.file_path = None THEN save_file_as(s, saveName) ELSE WriteBuffer(s)
save_file_as(s, saveName) ==
    IF saveName # None THEN save_file([s EXCEPT !.file_path = saveName], saveName)
    ELSE s

\* (a slip: None is taken like False, "do not save")
CancelledNever(answer) == FALSE

\* the answer None of the dialog: the action is to be abandoned
Cancelled(answer) == answer = "cancel"

\* _confirm_unsaved_changes: [ok, s], ok being the value returned
confirm_unsaved_changes(s, answer, saveName) ==
    IF s.modified /\ Cancelled(answer)
    THEN [ok |-> FALSE, s |-> [s EXCEPT !.prompted = TRUE]]
    ELSE LET s1 == IF s.modified /\ answer = "yes" THEN save_file(s, saveName) ELSE s
         IN  [ok |-> TRUE,
              s |-> [s1 EXCEPT !.modified = FALSE, !.prompted = s.modified]]

\* new_file
new_file(s, answer, saveName) ==
    LET c == confirm_unsaved_changes(s, answer, saveName)
    IN  IF ~c.ok THEN c.s
        ELSE [TextDelete(c.s, 0, Len(c.s.text) + 1) EXCEPT
                 !.file_path = None,
                 !.status = <<"Untitled", 1, 1>>,
                 !.modified = FALSE]

\* open_file; openName is what askopenfilename returns.  The buffer is emptied
\* before the file is read, and a file that cannot be read raises there.
open_file(s, answer, saveName, openName) ==
    LET c == confirm_unsaved_changes(s, answer, saveName)
    IN  IF ~c.ok \/ openName = None THEN c.s
        ELSE LET s1 == TextDelete(c.s, 0, Len(c.s.text) + 1)
                 bytes == s1.files[openName]
             IN  IF ~Readable(bytes)
                 THEN [s1 EXCEPT !.raised = "UnicodeDecodeError"]
                 ELSE LET s2 == TextInsert(s1, 0, Decode(bytes))
                          s3 == [s2 EXCEPT !.file_path = openName]
                          s4 == update_status_bar(highlight_syntax(update_line_numbers(s3)))
                      IN  [s4 EXCEPT !.modified = FALSE]

\* what the dialogs of a handler can return in state s: a dialog that is not
\* shown returns nothing to choose from
AnswersIn(s) == IF s.modified THEN Answers ELSE {None}
SaveNamesIn(s, answer) ==
    IF s.modified /\ answer = "yes" /\ s.file_path = None THEN SaveNames \cup {None}
    ELSE {None}
OpenNamesIn(s) == Paths \cup {None}

InLoop == phase = "mainloop"

\* File > New, Ctrl+N
NewFile ==
    /\ InLoop
    /\ \E answer \in AnswersIn(Cur) : \E saveName \in SaveNamesIn(Cur, answer) :
         /\ Store(new_file(Cur, answer, saveName))
         /\ lastOp' = <<"new_file", answer>>
    /\ UNCHANGED <<phase, popupVars, quizVars, linesep, console>>

\* File > Open, Ctrl+O
OpenFile ==
    /\ InLoop
    /\ \E answer \in AnswersIn(Cur) : \E saveName \in SaveNamesIn(Cur, answer) :
       \E openName \in IF Cancelled(answer) THEN {None} ELSE OpenNamesIn(Cur) :
         /\ Store(open_file(Cur, answer, saveName, openName))
         /\ lastOp' = <<"open_file", answer, openName>>
    /\ UNCHANGED <<phase, popupVars, quizVars, linesep, console>>

\* File > Save, Ctrl+S
SaveFile ==
    /\ InLoop
    /\ \E saveName \in IF file_path = None THEN SaveNames \cup {None} ELSE {None} :
         /\ Store(save_file(Cur, saveName))
         /\ lastOp' = <<"save_file", saveName>>
    /\ UNCHANGED <<phase, popupVars, quizVars, linesep, console>>

\* File > Save As
SaveFileAs ==
    /\ InLoop
    /\ \E saveName \in SaveNames \cup {None} :
         /\ Store(save_file_as(Cur, saveName))
         /\ lastOp' = <<"save_file_as", saveName>>
    /\ UNCHANGED <<phase, popupVars, quizVars, linesep, console>>

\* File > Exit: self.root.quit, which ends mainloop and so run() and main()
Exit ==
    /\ InLoop
    /\ phase' = "quit"
    /\ Store(Cur)
    /\ lastOp' = <<"quit">>
    /\ UNCHANGED <<popupVars, quizVars, linesep, console>>

\* ---------------------------------------------------------- editing events
\* root.after(200, self._highlight_syntax): the callback is pending under a new id
AfterId(n) == "after#" \o ToString(n)
After(s) ==
    LET n == CHOOSE i \in 1..(MaxTimers + 1) :
                AfterId(i) \notin s.timers /\ \A j \in 1..(i - 1) : AfterId(j) \in s.timers
    IN  [s EXCEPT !.timers = s.timers \cup {AfterId(n)}, !.after_id = AfterId(n)]

\* root.after_cancel(self._after_id)
AfterCancel(s) == [s EXCEPT !.timers = s.timers \ {s.after_id}]

\* _on_text_change
on_text_change(s) ==
    LET s1 == update_helper_panel(update_line_numbers(s))
        s2 == IF s1.after_id # None THEN AfterCancel(s1) ELSE s1
    IN  After(s2)

\* _bind_events: the bind calls on self.text, in order
TextBindings ==
    << <<"<KeyRelease>", "_on_text_change">>,
       <<"<ButtonRelease>", "_update_helper_panel">>,
       <<"<Control-space>", "_show_autocomplete">>,
       <<"<Motion>", "_update_status_bar">>,
       <<"<KeyRelease>", "_update_status_bar">>,
       <<"<<Selection>>", "_update_helper_panel">> >>

\* the handler a sequence is bound to: bind without add="+" replaces the
\* handler bound before, so the last call counts
Bound(sequence) ==
    LET calls == {i \in 1..Len(TextBindings) : TextBindings[i][1] = sequence}
    IN  IF calls = {} THEN None
        ELSE TextBindings[CHOOSE i \in calls : \A j \in calls : j <= i][2]

\* the event loop calls the handler bound to the sequence
Dispatch(sequence, s) ==
    CASE Bound(sequence) = "_on_text_change" -> on_text_change(s)
      [] Bound(sequence) = "_update_status_bar" -> update_status_bar(s)
      [] Bound(sequence) = "_update_helper_panel" -> update_helper_panel(s)
      [] OTHER -> s

\* the pending callbacks stay within the model's bound
TimersBounded(s) == Cardinality(s.timers) <= MaxTimers

\* what the user types
TypedChars == {"i", "\n"}

\* a key is pressed in the editor: the Text class binding replaces the
\* selection the insert mark is in by the character
KeyPress ==
    /\ InLoop /\ focus = "editor"
    /\ Len(text) < MaxLen
    /\ \E c \in TypedChars :
         LET s0 == Cur
             s1 == IF s0.sel # <<>> /\ s0.sel[1] <= s0.insert /\ s0.insert <= s0.sel[2]
                   THEN TextDelete(s0, s0.sel[1], s0.sel[2]) ELSE s0
         IN  /\ Store(TextInsert(s1, s1.insert, <<c>>))
             /\ lastOp' = <<"<KeyPress>", c>>
    /\ UNCHANGED <<phase, popupVars, quizVars, linesep, console>>

\* a key is released in the editor
KeyRelease ==
    /\ InLoop /\ focus = "editor"
    /\ TimersBounded(Dispatch("<KeyRelease>", Cur))
    /\ Store(Dispatch("<KeyRelease>", Cur))
    /\ lastOp' = <<"<KeyRelease>">>
    /\ UNCHANGED <<phase, popupVars, quizVars, linesep, console>>

\* the pointer moves over the editor
Motion ==
    /\ InLoop
    /\ Store(Dispatch("<Motion>", Cur))
    /\ lastOp' = <<"<Motion>">>
    /\ UNCHANGED <<phase, popupVars, quizVars, linesep, console>>

\* the offsets the pointer is put at
ClickOffsets == 0..Min(Len(text), MaxLen)

\* a click in the editor: the insert mark moves, the selection goes
ButtonRelease ==
    /\ InLoop
    /\ \E p \in ClickOffsets :
         LET s1 == [Cur EXCEPT !.insert = p, !.sel = <<>>]
         IN  /\ Store(Dispatch("<ButtonRelease>", Dispatch("<<Selection>>", s1)))
             /\ lastOp' = <<"<ButtonRelease>", p>>
    /\ focus' = "editor"
    /\ UNCHANGED <<phase, ac_window, ac_list, windows, quizVars, linesep, console>>

\* a drag in the editor selects a..b and leaves the insert mark at b
Selection ==
    /\ InLoop
    /\ \E a \in ClickOffsets, b \in ClickOffsets :
         /\ a < b
         /\ LET s1 == [Cur EXCEPT !.insert = b, !.sel = <<a, b>>]
            IN  Store(Dispatch("<ButtonRelease>", Dispatch("<<Selection>>", s1)))
         /\ lastOp' = <<"<<Selection>>", a, b>>
    /\ focus' = "editor"
    /\ UNCHANGED <<phase, ac_window, ac_list, windows, quizVars, linesep, console>>

\* a text-change event handed to _on_text_change
TextChange ==
    /\ InLoop
    /\ TimersBounded(on_text_change(Cur))
    /\ Store(on_text_change(Cur))
    /\ lastOp' = <<"_on_text_change">>
    /\ UNCHANGED <<phase, popupVars, quizVars, linesep, console>>

\* a pending highlight callback fires
HighlightTimer ==
    /\ InLoop
    /\ \E id \in timers :
         /\ Store(highlight_syntax([Cur EXCEPT !.timers = timers \ {id}]))
         /\ lastOp' = <<"_highlight_syntax", id>>
    /\ UNCHANGED <<phase, popupVars, quizVars, linesep, console>>

\* what example_list.selection() holds when <<TreeviewSelect>> arrives
ExampleSelections == {<<>>, <<"Hello">>, <<"FizzBuzz">>}

\* _insert_example
insert_example(s, selection) ==
    IF selection = <<>> THEN s
    ELSE LET code == CODE_EXAMPLES(selection[1])
         IN  IF code = <<>> THEN s
             ELSE LET s1 == TextDelete(s, 0, Len(s.text) + 1)
                      s2 == TextInsert(s1, 0, code)
                  IN  highlight_syntax(update_line_numbers(s2))

InsertExample ==
    /\ InLoop
    /\ \E selection \in ExampleSelections :
         /\ Store(insert_example(Cur, selection))
         /\ lastOp' = <<"_insert_example", selection>>
    /\ UNCHANGED <<phase, popupVars, quizVars, linesep, console>>

\* ------------------------------------------------------------ autocomplete
\* [item for item in AUTOCOMPLETE_SUGGESTIONS if item.startswith(word)]
Matches(word) == SelectSeq(AUTOCOMPLETE_SUGGESTIONS, LAMBDA item : StartsWith(item, word))

\* the name of a new Toplevel
WindowId(n) == ".!toplevel" \o ToString(n)
NewWindow(ws) == WindowId(CHOOSE n \in 1..(Cardinality(ws) + 1) :
                    WindowId(n) \notin ws /\ \A m \in 1..(n - 1) : WindowId(m) \in ws)

\* the popup's fields as one record
Popup == [ac_window |-> ac_window, ac_list |-> ac_list, windows |-> windows,
          focus |-> focus]
StorePopup(p) ==
    /\ ac_window' = p.ac_window
    /\ ac_list' = p.ac_list
    /\ windows' = p.windows
    /\ focus' = p.focus

\* window.destroy(): the window is gone, and with it the focus it had
Destroy(p, w) ==
    [p EXCEPT !.windows = p.windows \ {w},
              !.focus = IF p.focus = "popup" /\ w \in p.windows THEN "editor"
                        ELSE p.focus]

\* _show_autocomplete; visible tells whether text.bbox("insert") is a box
show_autocomplete(p, s, visible) ==
    LET p1 == IF p.ac_window # None THEN Destroy(p, p.ac_window) ELSE p
        matches == Matches(current_word(s))
    IN  IF matches = <<>> \/ ~visible THEN p1
        ELSE LET w == NewWindow(p1.windows)
             IN  [p1 EXCEPT !.windows = p1.windows \cup {w},
                            !.ac_window = w,
                            !.ac_list = matches,
                            !.focus = "popup"]

\* _close_autocomplete
close_autocomplete(p) ==
    LET p1 == IF p.ac_window # None
              THEN [Destroy(p, p.ac_window) EXCEPT !.ac_window = None]
              ELSE p
    IN  [p1 EXCEPT !.ac_list = <<>>]

\* _replace_current_word: the index expressions "line.column wordstart" and
\* "line.column wordend" are worked out again at each call that is given them
replace_current_word(s, replacement) ==
    IF s.sel # <<>>
    THEN LET s1 == TextDelete(s, s.sel[1], s.sel[2])
         IN  TextInsert(s1, s1.insert, replacement)
    ELSE LET line == LineOf(s.text, s.insert)
             column == ColOf(s.text, s.insert)
             at == IndexAt(s.text, line, column)
             s1 == TextDelete(s, WordStart(s.text, at), WordEnd(s.text, at))
         IN  TextInsert(s1, WordStart(s1.text, IndexAt(s1.text, line, column)),
                        replacement)

\* Ctrl+Space in the editor
ShowAutocomplete ==
    /\ InLoop /\ focus = "editor"
    /\ \E visible \in BOOLEAN :
         /\ StorePopup(show_autocomplete(Popup, Cur, visible))
         /\ lastOp' = <<"_show_autocomplete", visible>>
    /\ Store(Cur)
    /\ UNCHANGED <<phase, quizVars, linesep, console>>

\* the items the user has selected in the popup's tree when Return or a
\* double click arrives: one of the first items, or none
TreeSelections == {<<>>} \cup {<<ac_list[k]>> : k \in 1..Min(MaxPick, Len(ac_list))}

\* _insert_autocomplete: Return or a double click in the popup's tree
InsertAutocomplete ==
    /\ InLoop /\ ac_window \in windows
    /\ Len(text) <= MaxLen
    /\ \E selection \in TreeSelections :
         /\ IF selection = <<>>
            THEN Store(Cur) /\ StorePopup(Popup)
            ELSE /\ Store(replace_current_word(Cur, selection[1]))
                 /\ StorePopup(close_autocomplete(Popup))
         /\ lastOp' = <<"_insert_autocomplete", selection>>
    /\ UNCHANGED <<phase, quizVars, linesep, console>>

\* Escape in the popup's tree
Escape ==
    /\ InLoop /\ ac_window \in windows /\ focus = "popup"
    /\ StorePopup(close_autocomplete(Popup))
    /\ Store(Cur)
    /\ lastOp' = <<"<Escape>">>
    /\ UNCHANGED <<phase, quizVars, linesep, console>>

\* the popup loses the focus to another window: nothing is bound to <FocusOut>
FocusOut ==
    /\ InLoop /\ ac_window \in windows /\ focus = "popup"
    /\ focus' = "elsewhere"
    /\ Store(Cur)
    /\ lastOp' = <<"<FocusOut>">>
    /\ UNCHANGED <<phase, ac_window, ac_list, windows, quizVars, linesep, console>>

\* ------------------------------------------------------------ console runner
\* What exec(code, ...) does, as far as _execute_code can tell: the chunks the
\* code writes, each to stdout ("out") or stderr ("err"), in the order written,
\* and how it ends: it returns, or raises an exception of some class with some
\* message.  Python is not interpreted here: code that is not blank may do any
\* of these, blank code does nothing.
Writes == {<<>>, <<[to |-> "out", chunk |-> "hi\n"]>>,
           <<[to |-> "err", chunk |-> "warn\n"]>>,
           <<[to |-> "err", chunk |-> "warn\n"], [to |-> "out", chunk |-> "hi\n"]>>}
Endings ==
    {[raises |-> None, message |-> ""],
     [raises |-> "ZeroDivisionError", message |-> "division by zero"],
     [raises |-> "SystemExit", message |-> "0"],
     [raises |-> "KeyboardInterrupt", message |-> ""]}
Runs(code) ==
    IF Strip(code) = <<>> THEN {[writes |-> <<>>, ending |-> [raises |-> None, message |-> ""]]}
    ELSE {[writes |-> w, ending |-> e] : w \in Writes, e \in Endings}

\* the classes "except Exception" catches: all but those that derive from
\* BaseException alone
IsException(class) == class \notin {"SystemExit", "KeyboardInterrupt", "GeneratorExit"}

\* what a StringIO that stands for the stream holds after the writes
Captured(writes, stream) ==
    LET kept == SelectSeq(writes, LAMBDA w : w.to = stream)
    IN  [i \in 1..Len(kept) |-> kept[i].chunk]

\* the "except Exception as exc" clause: whether it handles the ending
Handles(ending) == ending.raises # None /\ IsException(ending.raises)

\* (a slip: the errors are put before the output)
ConsoleAppendErrorsFirst(output, errors) == errors \o output

\* what the finally clause appends to the console: the output, then the errors
ConsoleAppend(output, errors) == output \o errors

\* _execute_code, on the console and a run of the code: the console after it
\* and the exception that leaves it
execute_code(con, run) ==
    LET output == Captured(run.writes, "out")
        errors == Captured(run.writes, "err") \o
                  (IF Handles(run.ending)
                   THEN <<"Error: ", run.ending.message, "\n">> ELSE <<>>)
    IN  [console |-> con \o ConsoleAppend(output, errors),
         raised |-> IF run.ending.raises # None /\ ~Handles(run.ending)
                    THEN run.ending.raises ELSE None]

\* the handler ran _execute_code: Tk's callback wrapper lets SystemExit through,
\* which ends mainloop, and reports any other exception and goes on
Executed(run) ==
    LET r == execute_code(console, run)
    IN  /\ console' = r.console
        /\ Store([Cur EXCEPT !.raised = r.raised])
        /\ phase' = IF r.raised = "SystemExit" THEN "quit" ELSE phase
        /\ lastOp' = <<"_execute_code", run>>

\* run_code: Run > Run Script, F5
RunCode ==
    /\ InLoop
    /\ Len(console) < MaxConsole
    /\ \E run \in Runs(TextGet(text, 0, Len(text))) : Executed(run)
    /\ UNCHANGED <<popupVars, quizVars, linesep>>

\* run_selection: Run > Run Selection, Shift+F5
RunSelection ==
    /\ InLoop
    /\ Len(console) < MaxConsole
    /\ IF sel = <<>>
       THEN /\ Store(Cur)
            /\ lastOp' = <<"run_selection", "No selection">>
            /\ UNCHANGED <<phase, console>>
       ELSE \E run \in Runs(TextGet(text, sel[1], sel[2])) :
               Executed(run)
    /\ UNCHANGED <<popupVars, quizVars, linesep>>

\* clear_console: Edit > Clear Output
ClearConsole ==
    /\ InLoop
    /\ console' = <<>>
    /\ Store(Cur)
    /\ lastOp' = <<"clear_console">>
    /\ UNCHANGED <<phase, popupVars, quizVars, linesep>>

\* -------------------------------------------------------------------- quiz
\* the question at a 0-based index
Question(i) == QUIZ_QUESTIONS[i + 1]

\* (a slip: the entry is not stripped)
IsCorrectUnstripped(entry, q) == Lower(entry) = Lower(q.answer)

\* whether the entry's text is the answer of question q
IsCorrect(entry, q) == Lower(Strip(entry)) = Lower(q.answer)

\* the index after an answer to question i
NextIndex(i, correct) == IF correct THEN (i + 1) % Len(QUIZ_QUESTIONS) ELSE i

\* the feedback label's text, as the pieces of the f-string
Feedback(q, correct) ==
    IF correct THEN <<"Correct! ", q.explanation>>
    ELSE <<"Not quite. ", q.explanation>>

\* what the user types into the entry: each answer as it is, capitalised and
\* padded, and texts that are no answer
QuizTexts ==
    { <<"d","e","f">>, <<"D","e","F">>, <<" ","d","e","f"," ">>, <<"d"," ","e","f">>,
      <<"i","n","t">>, <<"I","N","T","\t">>, <<"i","n","t","s">>,
      <<"w","h","i","l","e">>, <<" ","W","h","i","l","e">>, <<>>, <<" ">> }

\* the user edits the quiz entry
QuizType ==
    /\ InLoop
    /\ \E t \in QuizTexts : quiz_entry' = t /\ lastOp' = <<"quiz_entry", t>>
    /\ UNCHANGED <<phase, editorVars, popupVars, linesep, console,
                   quiz_index, quiz_prompt, quiz_feedback, quiz_timers>>

\* _check_quiz: the Check button
CheckQuiz ==
    /\ InLoop
    /\ quiz_timers < MaxQuizTimers
    /\ LET question == Question(quiz_index)
           correct == IsCorrect(quiz_entry, question)
       IN  /\ quiz_feedback' = Feedback(question, correct)
           /\ quiz_index' = NextIndex(quiz_index, correct)
           /\ lastOp' = <<"_check_quiz", quiz_index, correct>>
    /\ quiz_timers' = quiz_timers + 1
    /\ UNCHANGED <<phase, editorVars, popupVars, linesep, console,
                   quiz_prompt, quiz_entry>>

\* _show_quiz_question, called by a pending timer
ShowQuizQuestion ==
    /\ InLoop
    /\ quiz_timers > 0
    /\ quiz_timers' = quiz_timers - 1
    /\ quiz_prompt' = Question(quiz_index).prompt
    /\ quiz_entry' = <<>>
    /\ quiz_feedback' = <<>>
    /\ lastOp' = <<"_show_quiz_question">>
    /\ UNCHANGED <<phase, editorVars, popupVars, linesep, console, quiz_index>>

\* --------------------------------------------------------------- lifecycle
\* the files on the disk when the editor starts: one of text, one that is no UTF-8
InitFiles == [p \in Paths |-> IF p = "a.py" THEN <<"i", "\r", "\n">> ELSE <<BadByte>>]

\* the state __init__ leaves
Init ==
    /\ phase = "constructed"
    /\ text = <<>> /\ insert = 0 /\ sel = <<>> /\ modified = FALSE
    /\ file_path = None
    /\ files = InitFiles
    /\ linesep \in {<<"\n">>, <<"\r", "\n">>}
    /\ line_numbers = <<>>
    /\ helper_text = ""
    /\ status = <<"Ready">>
    /\ after_id = None /\ timers = {}
    /\ ac_window = None /\ ac_list = <<>> /\ windows = {} /\ focus = "editor"
    /\ console = <<>>
    /\ quiz_index = 0
    /\ quiz_prompt = Question(0).prompt
    /\ quiz_entry = <<>> /\ quiz_feedback = <<>> /\ quiz_timers = 0
    /\ lastOp = <<"__init__">>
    /\ prompted = FALSE /\ raised = None

\* run(): the gutter and the colours are set up, then mainloop starts
Run ==
    /\ phase = "constructed"
    /\ phase' = "mainloop"
    /\ Store(highlight_syntax(update_line_numbers(Cur)))
    /\ lastOp' = <<"run">>
    /\ UNCHANGED <<popupVars, quizVars, linesep, console>>

\* the quiz pane alone
NextQuiz == Run \/ QuizType \/ CheckQuiz \/ ShowQuizQuestion
SpecQuiz == Init /\ [][NextQuiz]_vars

\* the document and its file
NextFile == Run \/ KeyPress \/ NewFile \/ OpenFile \/ SaveFile \/ SaveFileAs \/ Exit
SpecFile == Init /\ [][NextFile]_vars

\* the console runner
NextExec == Run \/ InsertExample \/ Selection \/ RunCode \/ RunSelection \/ ClearConsole
SpecExec == Init /\ [][NextExec]_vars

\* the editor: what the user does in the text and with the menus
Next ==
    \/ Run \/ KeyPress \/ KeyRelease
    \/ InsertExample \/ NewFile \/ OpenFile
Spec == Init /\ [][Next]_vars

\* the autocomplete popup
NextPopup ==
    \/ Run \/ KeyPress \/ ButtonRelease \/ Selection \/ Motion
    \/ ShowAutocomplete \/ InsertAutocomplete \/ Escape \/ FocusOut
SpecPopup == Init /\ [][NextPopup]_vars

\* the debounce of the highlight pass, with _on_text_change called on a change
NextTextChange ==
    Run \/ TextChange \/ HighlightTimer \/ InsertExample \/ OpenFile
SpecTextChange == Init /\ [][NextTextChange]_vars

\* ================================================================== claims
GutterOf(t) == [n \in 1..NumLines(t) |-> n]

\* C1: _check_quiz moves the index to (i + 1) modulo the number of questions
\* when the entry, trimmed and lower-cased, is the answer of question i, and
\* leaves it at i for any other text; either way the feedback holds the
\* non-empty explanation of question i, and the index stays within 0..N-1.
C1_Accepted ==
    << {<<"d","e","f">>, <<"D","e","F">>, <<" ","d","e","f"," ">>},
       {<<"i","n","t">>, <<"I","N","T","\t">>},
       {<<"w","h","i","l","e">>, <<" ","W","h","i","l","e">>} >>
C1_CheckQuizAdvancesOnAnswer ==
    [][/\ quiz_index' \in 0..(Len(QUIZ_QUESTIONS) - 1)
       /\ CheckQuiz =>
            LET q == QUIZ_QUESTIONS[quiz_index + 1]
            IN  /\ quiz_index' = IF quiz_entry \in C1_Accepted[quiz_index + 1]
                                 THEN (quiz_index + 1) % 3 ELSE quiz_index
                /\ q.explanation # ""
                /\ \E k \in 1..Len(quiz_feedback') : quiz_feedback'[k] = q.explanation
      ]_vars
\* a padded, capitalised answer to the last question has wrapped the index round
C1_Witness ==
    /\ lastOp[1] = "_check_quiz" /\ lastOp[2] = 2
    /\ quiz_entry = <<" ","W","h","i","l","e">>
    /\ quiz_index = 0

\* C2: whatever the executed text raises is caught inside _execute_code and
\* recorded as error text that begins with "Error: "; nothing leaves
\* _execute_code and the process goes on.
C2_NoErrorLeavesExecuteCode ==
    (lastOp[1] = "_execute_code" /\ lastOp[2].ending.raises # None) =>
        /\ raised = None
        /\ phase = "mainloop"
        /\ \E k \in 1..Len(console) : console[k] = "Error: "

\* C3: with the modified flag set and "cancel" answered, new_file and open_file
\* leave the buffer, the file path, the modified flag and every file as they
\* were.
C3_CancelAborts ==
    [][((NewFile \/ OpenFile) /\ modified /\ lastOp'[2] = "cancel") =>
           /\ text' = text
           /\ file_path' = file_path
           /\ modified' = modified
           /\ files' = files
           /\ prompted'
      ]_vars
\* open_file was cancelled on a modified buffer
C3_Witness ==
    /\ lastOp[1] = "open_file" /\ lastOp[2] = "cancel"
    /\ modified /\ prompted /\ text # <<>>

\* C4: New, Open and Exit each look at the modified flag first; with the flag
\* set none of them discards the buffer or ends the session before the user
\* has been shown the unsaved-changes dialog.
C4_PromptBeforeDiscardOrQuit ==
    [][((NewFile \/ OpenFile \/ Exit) /\ modified /\ (text' # text \/ phase' = "quit"))
           => prompted'
      ]_vars

\* the last handler wrote the buffer to the file at file_path
C5_JustSaved ==
    \/ lastOp[1] = "save_file" /\ file_path # None
    \/ lastOp[1] = "save_file_as" /\ lastOp[2] # None
C6_OutOf(run) ==
    IF \E k \in 1..Len(run.writes) : run.writes[k].to = "out" THEN <<"hi\n">> ELSE <<>>
C6_ErrOf(run) ==
    (IF \E k \in 1..Len(run.writes) : run.writes[k].to = "err" THEN <<"warn\n">> ELSE <<>>)
    \o (IF run.ending.raises = "ZeroDivisionError"
        THEN <<"Error: ", "division by zero", "\n">> ELSE <<>>)
C6_ConsoleGetsOutputThenErrors ==
    [][((RunCode \/ RunSelection) /\ lastOp'[1] = "_execute_code") =>
           LET run == lastOp'[2]
           IN  /\ console' = console \o C6_OutOf(run) \o C6_ErrOf(run)
               /\ (run.writes = <<[to |-> "out", chunk |-> "hi\n"]>>
                   /\ run.ending.raises = None) => console' = console \o <<"hi\n">>
               /\ text' = text /\ file_path' = file_path /\ modified' = modified
      ]_vars
\* a run wrote to stderr, then to stdout, and raised: the console shows the
\* output first
C6_Witness ==
    /\ lastOp[1] = "_execute_code"
    /\ lastOp[2].writes = <<[to |-> "err", chunk |-> "warn\n"],
                            [to |-> "out", chunk |-> "hi\n"]>>
    /\ lastOp[2].ending.raises = "ZeroDivisionError"
    /\ console = <<"hi\n", "warn\n", "Error: ", "division by zero", "\n">>

\* C7: every key release in the editor runs the text-change handler: after it
\* the gutter and the helper panel are refreshed and a highlight pass is
\* pending.
C7_KeyReleaseRunsTextChange ==
    [][KeyRelease =>
           /\ line_numbers' = GutterOf(text')
           /\ after_id' # None
           /\ after_id' \in timers'
      ]_vars

\* C8: while the popup is open, Escape, and the popup losing the focus, close
\* it: the window is gone, the handle is cleared, the buffer is as it was.
C8_EscapeOrFocusLossCloses ==
    [][(Escape \/ FocusOut) =>
           /\ windows' = {}
           /\ ac_window' = None
           /\ text' = text
      ]_vars

\* C9: after an operation that changes the buffer (typing, once the key is
\* released; New; Open; inserting an example; accepting a suggestion) the
\* gutter shows exactly 1..N,
\* N being the number of lines of the buffer.
C9_GutterShowsEveryLine ==
    [][(\/ lastOp'[1] = "<KeyRelease>" /\ lastOp[1] = "<KeyPress>"
        \/ /\ lastOp'[1] \in {"new_file", "open_file", "_insert_example",
                            "_insert_autocomplete"}
           /\ text' # text)
           => line_numbers' = GutterOf(text')
      ]_vars

C11_SavedBeforeReplaced ==
    [][((NewFile \/ OpenFile) /\ modified /\ lastOp'[2] = "yes" /\ text' # text) =>
           \E p \in Paths : /\ Readable(files'[p])
                            /\ Decode(files'[p]) = text
      ]_vars

\* the document the editor holds when nothing is unsaved: the empty document
\* of no file, or what reading the file at file_path gives
C12_OnDisk ==
    IF file_path = None THEN <<>>
    ELSE IF Readable(files[file_path]) THEN Decode(files[file_path])
    ELSE <<BadByte>>
\* C12: whenever the modified flag is clear the buffer is the content last
\* saved to or loaded from the file at file_path, or is empty when there is no
\* file: no unsaved edit sits in the buffer under a clear flag.
C12_ClearFlagMeansSaved ==
    ~modified => text = C12_OnDisk

\* C13: an open_file whose read fails leaves the buffer and the file path as
\* they were before open_file was called.
C13_FailedOpenChangesNothing ==
    [][(OpenFile /\ raised' # None) =>
           /\ text' = text
           /\ file_path' = file_path
      ]_vars

\* C14: whenever _check_quiz runs, the prompt on display is the prompt of the
\* question the answer is compared with, QUIZ_QUESTIONS[index], however the
\* submissions and the pending _show_quiz_question timers interleave.
C14_CheckedAgainstDisplayedPrompt ==
    [][CheckQuiz => quiz_prompt = QUIZ_QUESTIONS[quiz_index + 1].prompt]_vars

====
